---- MODULE Spec2Model ----
(***************************************************************************)
(* A model of PGMTranslator.py: the byte pattern locator (stream_search),  *)
(* the bracket-balance span finder (find_couple_brackets_end), the subtree *)
(* extractor (extract_localization), the spliced rewriters                 *)
(* (add_language_support, add_translation) and the translation traversal   *)
(* (translate_strings / translate_block).                                  *)
(*                                                                         *)
(* A file is a sequence of bytes.  An ASCII byte is written as the         *)
(* one-character string of its character; the two bytes of the UTF-8       *)
(* encoding of U+00E9 are written "C3" and "A9".                           *)
(***************************************************************************)
EXTENDS Integers, Sequences, FiniteSets, TLC

VARIABLES
  doc,            \* the Document (project.json): its bytes
  wv,             \* the Working Value file (localization_file): its bytes
  pc,             \* position of the running function
  pattern,        \* stream_search: DEC_ARRAY_PATTERN
  start,          \* stream_search: start; find_couple_brackets_end: start
  cursor,         \* f.tell() of the file being scanned
  stream,         \* stream_search: the window last read
  result,         \* the value returned
  brackets,       \* find_couple_brackets_end: <<open_bracket, close_bracket>>
  reset,          \* find_couple_brackets_end: reset
  brackets_open,  \* find_couple_brackets_end: brackets_open
  char,           \* find_couple_brackets_end: char
  last,           \* the last whole operation run on the Document, and what it did
  data,           \* translate_strings: data
  i,              \* translate_strings: the index of the block being translated
  log,            \* translate_block: one entry per call of the translator
  cfg             \* translate_strings: lang_src, lang_dest, skip

vars == <<doc, wv, pc, pattern, start, cursor, stream, result, brackets, reset,
          brackets_open, char, last, data, i, log, cfg>>

----------------------------------------------------------------------------
(* Bounds of the model. *)

MaxDocLen == 5
MaxPatLen == 3

(* Values that stand for "nothing". *)
None == "None"
EOF == ""
NoOp == [op |-> "none"]

Seqs(S, n) == UNION {[1..k -> S] : k \in 0..n}

Min(S) == CHOOSE x \in S : \A y \in S : x <= y

(* Python's list[a:b] for 0 <= a. *)
Slice(s, a, b) == SubSeq(s, a + 1, IF b < Len(s) THEN b ELSE Len(s))

(* Python's list[a:]. *)
SliceFrom(s, a) == SubSeq(s, a + 1, Len(s))

----------------------------------------------------------------------------
(* stream_search *)

NotFound == 0 - 1

is_slice_in_list(slice, list) ==
  \E k \in 0..(Len(list) - Len(slice)) : slice = Slice(list, k, Len(slice) + k)

(* f.read(STREAM_LENGTH) on the binary file at offset pos. *)
ReadBytes(D, pos, n) == Slice(D, pos, pos + n)

(* The body of the while loop after the window is read, the file being at *)
(* offset tell: the match found, the cursor moved back to a partial match, *)
(* or the cursor left after the window.                                    *)
ScanWindowNoRealign(w, P, tell) ==
  IF w = P THEN [kind |-> "found", pos |-> tell - Len(P)]
           ELSE [kind |-> "next", pos |-> tell]

ScanWindow(w, P, tell) ==
  LET occourrences == {k \in 0..(Len(w) - 1) : w[k + 1] = P[1]}
      hits == {k \in occourrences : is_slice_in_list(SliceFrom(w, k), P)}
  IN  IF hits = {} THEN [kind |-> "next", pos |-> tell]
      ELSE LET subset == SliceFrom(w, Min(hits))
           IN  IF subset = P
                 THEN [kind |-> "found", pos |-> tell - Len(P)]
                 ELSE [kind |-> "seek", pos |-> tell - Len(subset)]

SearchIdle ==
  /\ pattern = <<>>
  /\ stream = <<>>

SearchRead ==
  /\ pc = "search_while"
  /\ cursor < Len(doc)
  /\ stream' = ReadBytes(doc, cursor, Len(pattern))
  /\ cursor' = cursor + Len(stream')
  /\ pc' = "search_scan"
  /\ UNCHANGED <<doc, wv, pattern, start, result, brackets, reset,
                 brackets_open, char, last, data, i, log, cfg>>

SearchScan ==
  /\ pc = "search_scan"
  /\ LET r == ScanWindow(stream, pattern, cursor)
     IN  \/ /\ r.kind = "found"
            /\ result' = r.pos
            /\ pc' = "search_done"
            /\ UNCHANGED cursor
         \/ /\ r.kind = "seek"
            /\ cursor' = r.pos
            /\ pc' = "search_while"
            /\ UNCHANGED result
         \/ /\ r.kind = "next"
            /\ pc' = "search_while"
            /\ UNCHANGED <<cursor, result>>
  /\ UNCHANGED <<doc, wv, pattern, start, stream, brackets, reset,
                 brackets_open, char, last, data, i, log, cfg>>

SearchExit ==
  /\ pc = "search_while"
  /\ cursor >= Len(doc)
  /\ result' = NotFound
  /\ pc' = "search_done"
  /\ UNCHANGED <<doc, wv, pattern, start, cursor, stream, brackets, reset,
                 brackets_open, char, last, data, i, log, cfg>>

SearchAlphabet == {"a", "b"}

BracketIdle ==
  /\ brackets = <<>>
  /\ reset = FALSE
  /\ brackets_open = 0
  /\ char = None

OpsIdle ==
  /\ wv = <<>>
  /\ last = NoOp

TranslateIdle ==
  /\ data = None
  /\ i = 0
  /\ log = <<>>
  /\ cfg = None

SearchInit ==
  /\ doc \in Seqs(SearchAlphabet, MaxDocLen)
  /\ pattern \in Seqs(SearchAlphabet, MaxPatLen) \ {<<>>}
  /\ start \in 0..Len(doc)
  /\ cursor = start
  /\ stream = <<>>
  /\ result = None
  /\ pc = "search_while"
  /\ BracketIdle
  /\ OpsIdle
  /\ TranslateIdle

SearchNext == SearchRead \/ SearchScan \/ SearchExit

SearchSpec == SearchInit /\ [][SearchNext]_vars

(* The program is one thread that runs until it returns or raises. *)
SearchLive == SearchSpec /\ WF_vars(SearchNext)

(* One turn of the while loop with the file at offset pos. *)
SearchStep(D, P, pos) ==
  ScanWindow(ReadBytes(D, pos, Len(P)), P, pos + Len(ReadBytes(D, pos, Len(P))))

(* stream_search as a function: the offset, NotFound, or Hang when the loop *)
(* reads the same window again, which it then does for ever.  (The turn is  *)
(* bound through a set so that it is computed once.)                        *)
Hang == 0 - 2

RECURSIVE SearchFrom(_, _, _)
SearchFrom(D, P, pos) ==
  IF pos >= Len(D) THEN NotFound
  ELSE CHOOSE x \in {CASE r.kind = "found" -> r.pos
                       [] r.kind = "seek" /\ r.pos = pos -> Hang
                       [] OTHER -> SearchFrom(D, P, r.pos) :
                     r \in {SearchStep(D, P, pos)}} : TRUE

(* f.seek(start) on the binary file raises OSError for a negative start. *)
Raised == 0 - 3

stream_search(D, P, from) == IF from < 0 THEN Raised ELSE SearchFrom(D, P, from)

----------------------------------------------------------------------------
(* find_couple_brackets_end *)

(* UTF-8: the number of bytes of the character that starts with byte b. *)
CharWidth(b) == IF b = "C3" THEN 2 ELSE 1

(* file.read(1) on the text file at byte offset pos: the character read  *)
(* (EOF at end of file) and the offset after it.                         *)
ReadChar(D, pos) ==
  IF pos >= Len(D) THEN [char |-> EOF, pos |-> pos]
  ELSE IF CharWidth(D[pos + 1]) = 2 /\ pos + 2 <= Len(D)
         THEN [char |-> "U00E9", pos |-> pos + 2]
         ELSE [char |-> D[pos + 1], pos |-> pos + 1]

CountFlat(c, open_bracket, close_bracket, n) ==
  IF c = close_bracket THEN n - 1 ELSE n

Count(c, open_bracket, close_bracket, n) ==
  IF c = open_bracket THEN n + 1
  ELSE IF c = close_bracket THEN n - 1
  ELSE n

BracketBegin ==
  /\ pc = "brackets_begin"
  /\ cursor' = ReadChar(doc, cursor).pos
  /\ brackets_open' = 1
  /\ pc' = "brackets_while"
  /\ UNCHANGED <<doc, wv, pattern, start, stream, result, brackets, reset,
                 char, last, data, i, log, cfg>>

BracketRead ==
  /\ pc = "brackets_while"
  /\ brackets_open # 0
  /\ LET r == ReadChar(doc, cursor)
     IN  /\ char' = r.char
         /\ cursor' = r.pos
         /\ brackets_open' = Count(r.char, brackets[1], brackets[2], brackets_open)
  /\ UNCHANGED <<doc, wv, pc, pattern, start, stream, result, brackets, reset,
                 last, data, i, log, cfg>>

BracketReturn ==
  /\ pc = "brackets_while"
  /\ brackets_open = 0
  /\ result' = cursor
  /\ cursor' = IF reset THEN start ELSE cursor
  /\ pc' = "brackets_done"
  /\ UNCHANGED <<doc, wv, pattern, start, stream, brackets, reset,
                 brackets_open, char, last, data, i, log, cfg>>

BracketAlphabet == {"[", "]", "{", "}"}

BracketInit ==
  /\ doc \in Seqs(BracketAlphabet, MaxDocLen)
  /\ brackets \in {<<"[", "]">>, <<"{", "}">>}
  /\ reset \in BOOLEAN
  /\ start \in {k \in 0..(Len(doc) - 1) : doc[k + 1] = brackets[1]}
  /\ cursor = start
  /\ brackets_open = 0
  /\ char = None
  /\ result = None
  /\ pc = "brackets_begin"
  /\ SearchIdle
  /\ OpsIdle
  /\ TranslateIdle

BracketNext == BracketBegin \/ BracketRead \/ BracketReturn

BracketSpec == BracketInit /\ [][BracketNext]_vars

(* find_couple_brackets_end as a function of the file and the cursor: the *)
(* offset returned, or Hang when the loop reaches the end of the file,    *)
(* where read(1) returns '' for ever.                                     *)
(* The value of brackets_open when the loop, entered at offset from with *)
(* brackets_open = 1, has read the characters up to offset e.            *)
OpenAfter(D, from, e, open_bracket, close_bracket) ==
  1 + Cardinality({q \in (from + 1)..e : D[q] = open_bracket})
    - Cardinality({q \in (from + 1)..e : D[q] = close_bracket})

find_couple_brackets_end(D, pos, open_bracket, close_bracket) ==
  LET from == ReadChar(D, pos).pos
      stops == {e \in (from + 1)..Len(D) :
                  OpenAfter(D, from, e, open_bracket, close_bracket) = 0}
  IN  IF stops = {} THEN Hang ELSE Min(stops)

----------------------------------------------------------------------------
(* Text files: open(..., encoding='utf-8'). *)

(* bytes.decode('utf-8'): the characters of a byte sequence. *)
RECURSIVE Decode(_)
Decode(b) ==
  LET two == {p \in 1..Len(b) : CharWidth(b[p]) = 2}
  IN  IF two = {} THEN b
      ELSE SubSeq(b, 1, Min(two) - 1) \o <<ReadChar(b, Min(two) - 1).char>>
             \o Decode(SliceFrom(b, ReadChar(b, Min(two) - 1).pos))

(* str.encode('utf-8'): the bytes of a character sequence. *)
RECURSIVE Encode(_)
Encode(t) ==
  LET two == {p \in 1..Len(t) : t[p] = "U00E9"}
  IN  IF two = {} THEN t
      ELSE SubSeq(t, 1, Min(two) - 1) \o <<"C3", "A9">> \o Encode(SliceFrom(t, Min(two)))

(* f.read(n) on the text file at byte offset pos: n characters, or those *)
(* left; the bytes they take are D[pos:r.pos].                           *)
ReadChars(D, pos, n) ==
  LET ends == {e \in pos..Len(D) : Len(Decode(Slice(D, pos, e))) = n
                                     /\ (e = Len(D) \/ D[e + 1] # "A9")}
      e == IF n <= 0 THEN pos ELSE IF ends = {} THEN Len(D) ELSE Min(ends)
  IN  [chars |-> Decode(Slice(D, pos, e)), pos |-> e]

(* f.read() on the text file at byte offset pos: the rest of the file. *)
ReadAll(D, pos) == Decode(SliceFrom(D, pos))

ReadlineLimit == 2048

(* temp.readline(2048) at character offset p: up to and including the *)
(* next line feed, and no more than the limit.                         *)
ReadLine(t, p) ==
  LET stops == {q \in (p + 1)..Len(t) : t[q] = "\n" \/ q = p + ReadlineLimit}
  IN  Slice(t, p, IF stops = {} THEN Len(t) ELSE Min(stops))

(* The loop that appends the side buffer to the file, line by line. *)
RECURSIVE CopyLines(_, _)
CopyLines(t, p) ==
  LET line == ReadLine(t, p)
  IN  IF line = <<>> THEN <<>> ELSE line \o CopyLines(t, p + Len(line))

(* f.seek(pos); f.write(text) on a file opened r+: the bytes under the *)
(* text are replaced, the file grows if need be, and nothing is cut.    *)
WriteAt(D, pos, text) ==
  LET b == Encode(text)
  IN  Slice(D, 0, pos) \o b \o SliceFrom(D, pos + Len(b))

----------------------------------------------------------------------------
(* JSON values: json.loads and json.dumps.  A value is a string, an array *)
(* or an object: [k |-> "str", v |-> characters], [k |-> "arr", v |->     *)
(* values], [k |-> "obj", v |-> members in insertion order].              *)

Str(s) == [k |-> "str", v |-> s]
Arr(items) == [k |-> "arr", v |-> items]
Obj(members) == [k |-> "obj", v |-> members]
Member(key, val) == [key |-> key, val |-> val]
ParseError == [k |-> "error", v |-> <<>>]

Quote == "\""
Backslash == "\\"
Whitespace == {" ", "\n"}
EscapedE9 == <<Backslash, "u", "0", "0", "e", "9">>

(* ensure_ascii: a character outside ASCII is written as its \u escape. *)
RECURSIVE Escape(_)
Escape(s) ==
  LET two == {p \in 1..Len(s) : s[p] = "U00E9"}
  IN  IF two = {} THEN s
      ELSE SubSeq(s, 1, Min(two) - 1) \o EscapedE9 \o Escape(SliceFrom(s, Min(two)))

RECURSIVE Unescape(_)
Unescape(s) ==
  LET esc == {p \in 1..Len(s) : Slice(s, p - 1, p + 5) = EscapedE9}
  IN  IF esc = {} THEN s
      ELSE SubSeq(s, 1, Min(esc) - 1) \o <<"U00E9">>
             \o Unescape(SliceFrom(s, Min(esc) + 5))

RECURSIVE Serialize(_, _, _)
RECURSIVE Join(_, _, _, _, _)
(* The items of an array or the members of an object from index n on. *)
Join(items, n, isObj, item_separator, key_separator) ==
  IF n > Len(items) THEN <<>>
  ELSE (IF n > 1 THEN item_separator ELSE <<>>)
         \o (IF isObj
               THEN <<Quote>> \o Escape(items[n].key) \o <<Quote>> \o key_separator
                      \o Serialize(items[n].val, item_separator, key_separator)
               ELSE Serialize(items[n], item_separator, key_separator))
         \o Join(items, n + 1, isObj, item_separator, key_separator)

Serialize(x, item_separator, key_separator) ==
  CASE x.k = "str" -> <<Quote>> \o Escape(x.v) \o <<Quote>>
    [] x.k = "arr" -> <<"[">> \o Join(x.v, 1, FALSE, item_separator, key_separator) \o <<"]">>
    [] x.k = "obj" -> <<"{">> \o Join(x.v, 1, TRUE, item_separator, key_separator) \o <<"}">>

(* json.dumps(x), json.dump(x, f): separators (', ', ': '). *)
Dumps(x) == Serialize(x, <<",", " ">>, <<":", " ">>)

SkipWs(t, p) ==
  LET S == {q \in p..Len(t) : t[q] \notin Whitespace}
  IN  IF S = {} THEN Len(t) + 1 ELSE Min(S)

Fail == [ok |-> FALSE, val |-> ParseError, pos |-> 0]

At(t, p) == IF p >= 1 /\ p <= Len(t) THEN t[p] ELSE EOF

RECURSIVE ParseValue(_, _)
RECURSIVE ArrItems(_, _, _)
RECURSIVE ObjItems(_, _, _)

(* The string whose opening quote is at p. *)
ParseString(t, p) ==
  LET S == {q \in (p + 1)..Len(t) : t[q] = Quote}
  IN  IF S = {} THEN Fail
      ELSE [ok |-> TRUE, val |-> Str(Unescape(SubSeq(t, p + 1, Min(S) - 1))),
            pos |-> Min(S) + 1]

ArrItems(t, p, acc) ==
  LET r == ParseValue(t, p)
  IN  IF ~r.ok THEN Fail
      ELSE LET q == SkipWs(t, r.pos)
           IN  CASE At(t, q) = "," -> ArrItems(t, q + 1, Append(acc, r.val))
                 [] At(t, q) = "]" ->
                      [ok |-> TRUE, val |-> Arr(Append(acc, r.val)), pos |-> q + 1]
                 [] OTHER -> Fail

ObjItems(t, p, acc) ==
  LET q == SkipWs(t, p)
  IN  IF At(t, q) # Quote THEN Fail
      ELSE LET key == ParseString(t, q)
           IN  IF ~key.ok THEN Fail
               ELSE LET c == SkipWs(t, key.pos)
                    IN  IF At(t, c) # ":" THEN Fail
                        ELSE LET r == ParseValue(t, c + 1)
                             IN  IF ~r.ok THEN Fail
                                 ELSE LET e == SkipWs(t, r.pos)
                                          m == Append(acc, Member(key.val.v, r.val))
                                      IN  CASE At(t, e) = "," -> ObjItems(t, e + 1, m)
                                            [] At(t, e) = "}" ->
                                                 [ok |-> TRUE, val |-> Obj(m), pos |-> e + 1]
                                            [] OTHER -> Fail

ParseValue(t, p0) ==
  LET p == SkipWs(t, p0)
  IN  CASE At(t, p) = Quote -> ParseString(t, p)
        [] At(t, p) = "[" ->
             IF At(t, SkipWs(t, p + 1)) = "]"
               THEN [ok |-> TRUE, val |-> Arr(<<>>), pos |-> SkipWs(t, p + 1) + 1]
               ELSE ArrItems(t, p + 1, <<>>)
        [] At(t, p) = "{" ->
             IF At(t, SkipWs(t, p + 1)) = "}"
               THEN [ok |-> TRUE, val |-> Obj(<<>>), pos |-> SkipWs(t, p + 1) + 1]
               ELSE ObjItems(t, p + 1, <<>>)
        [] OTHER -> Fail

(* json.loads(t): the value, or ParseError when t is not one JSON value *)
(* (a JSONDecodeError, "Extra data" included).                          *)
Loads(t) ==
  LET r == ParseValue(t, 1)
  IN  IF r.ok /\ SkipWs(t, r.pos) > Len(t) THEN r.val ELSE ParseError

(* Python's dict and list operations on a parsed value. *)
Has(x, key) == x.k = "obj" /\ \E n \in 1..Len(x.v) : x.v[n].key = key

Get(x, key) == x.v[CHOOSE n \in 1..Len(x.v) : x.v[n].key = key].val

Put(x, key, val) ==
  IF Has(x, key)
    THEN Obj([n \in 1..Len(x.v) |->
               IF x.v[n].key = key THEN Member(key, val) ELSE x.v[n]])
    ELSE Obj(Append(x.v, Member(key, val)))

----------------------------------------------------------------------------
(* The operations on the Document. *)

KeyTextList == <<"t", "e", "x", "t", "L", "i", "s", "t">>
KeyGameInformation ==
  <<"g", "a", "m", "e", "I", "n", "f", "o", "r", "m", "a", "t", "i", "o", "n">>
KeyLanguage == <<"l", "a", "n", "g", "u", "a", "g", "e">>
KeyChildren == <<"c", "h", "i", "l", "d", "r", "e", "n">>
KeyText == <<"t", "e", "x", "t">>

(* The two stream_search calls, f.seek and find_couple_brackets_end that   *)
(* open every operation: the span [start, end) of the value of the key, or *)
(* "error" when a call raises (f.seek(-1) raises on the binary file inside *)
(* stream_search and on the text file in the caller), or "hang" when a     *)
(* loop does not end.                                                      *)
Locate(D, key, open_bracket, close_bracket) ==
  LET none == [status |-> "error", start |-> 0, end |-> 0]
      k == stream_search(D, key, 0)
  IN  IF k = Hang THEN [none EXCEPT !.status = "hang"]
      ELSE LET s == stream_search(D, <<open_bracket>>, k)
           IN  IF s = Hang THEN [none EXCEPT !.status = "hang"]
               ELSE IF s < 0 THEN none
               ELSE LET e == find_couple_brackets_end(D, s, open_bracket, close_bracket)
                    IN  IF e = Hang THEN [none EXCEPT !.status = "hang"]
                        ELSE [status |-> "ok", start |-> s, end |-> e]

(* What an operation did: how it ended ("ok", "error": it raised, "hang": *)
(* it does not return), the two files after it, the bytes its read of the *)
(* span took from the Document, and the text it wrote over the span.      *)
Outcome(outcome, D, W, read, wrote, text) ==
  [outcome |-> outcome, doc |-> D, wv |-> W, data |-> read,
   wrote |-> wrote, payload |-> text]

extract_localization(D, W) ==
  LET loc == Locate(D, KeyTextList, "[", "]")
  IN  IF loc.status # "ok" THEN Outcome(loc.status, D, W, <<>>, FALSE, <<>>)
      ELSE LET r == ReadChars(D, loc.start, loc.end - loc.start)
               read == Slice(D, loc.start, r.pos)
               js == Loads(r.chars)
           IN  IF js.k = "error"
                 THEN Outcome("error", D, <<>>, read, FALSE, <<>>)
                 ELSE Outcome("ok", D, Encode(Dumps(js)), read, FALSE, <<>>)

(* lang_dest in js['language'] *)
Contains(x, lang_dest) ==
  CASE x.k = "arr" -> \E n \in 1..Len(x.v) : x.v[n] = Str(lang_dest)
    [] x.k = "str" -> is_slice_in_list(lang_dest, x.v)
    [] OTHER -> Has(x, lang_dest)

add_language_supportAlways(D, W, lang_dest) ==
  LET loc == Locate(D, KeyGameInformation, "{", "}")
  IN  IF loc.status # "ok" THEN Outcome(loc.status, D, W, <<>>, FALSE, <<>>)
      ELSE LET r == ReadChars(D, loc.start, loc.end - loc.start)
               read == Slice(D, loc.start, r.pos)
               js == Loads(r.chars)
           IN  IF js.k = "error" \/ ~Has(js, KeyLanguage)
                 THEN Outcome("error", D, W, read, FALSE, <<>>)
               ELSE LET language == Get(js, KeyLanguage)
                    IN  IF language.k # "arr"
                          THEN Outcome("error", D, W, read, FALSE, <<>>)
                        ELSE LET text == Dumps(Put(js, KeyLanguage,
                                           Arr(Append(language.v, Str(lang_dest)))))
                                 temp == ReadAll(D, r.pos)
                             IN  Outcome("ok",
                                         WriteAt(D, loc.start, text \o CopyLines(temp, 0)),
                                         W, read, TRUE, text)

add_language_support(D, W, lang_dest) ==
  LET loc == Locate(D, KeyGameInformation, "{", "}")
  IN  IF loc.status # "ok" THEN Outcome(loc.status, D, W, <<>>, FALSE, <<>>)
      ELSE LET r == ReadChars(D, loc.start, loc.end - loc.start)
               read == Slice(D, loc.start, r.pos)
               js == Loads(r.chars)
           IN  IF js.k = "error" \/ ~Has(js, KeyLanguage)
                 THEN Outcome("error", D, W, read, FALSE, <<>>)
               ELSE LET language == Get(js, KeyLanguage)
                    IN  IF Contains(language, lang_dest)
                          THEN Outcome("ok", D, W, read, FALSE, <<>>)
                        ELSE IF language.k # "arr"
                          THEN Outcome("error", D, W, read, FALSE, <<>>)
                        ELSE LET text == Dumps(Put(js, KeyLanguage,
                                           Arr(Append(language.v, Str(lang_dest)))))
                                 temp == ReadAll(D, r.pos)
                             IN  Outcome("ok",
                                         WriteAt(D, loc.start, text \o CopyLines(temp, 0)),
                                         W, read, TRUE, text)

add_translation(D, W) ==
  LET loc == Locate(D, KeyTextList, "[", "]")
  IN  IF loc.status # "ok" THEN Outcome(loc.status, D, W, <<>>, FALSE, <<>>)
      ELSE LET temp == ReadAll(D, loc.end)
               translation_array == Loads(Decode(W))
           IN  IF translation_array.k = "error"
                 THEN Outcome("error", D, W, <<>>, FALSE, <<>>)
                 ELSE LET text == Dumps(translation_array)
                      IN  Outcome("ok",
                                  WriteAt(D, loc.start, text \o CopyLines(temp, 0)),
                                  W, <<>>, TRUE, text)

MaxOps == 3

en_US == <<"e", "n", "_", "U", "S">>
it_IT == <<"i", "t", "_", "I", "T">>
Locales == {en_US, it_IT}

(* json.dump(data, f, indent=None, separators=(',', ':')) *)
Compact(x) == Serialize(x, <<",">>, <<":">>)

(* A file that carries more whitespace than json.dumps writes. *)
Wide(x) ==
  Serialize(x, <<",", "\n", " ">>,
            <<":", " ", " ", " ", " ", " ", " ", " ", " ", " ", " ", " ", " ">>)

(* A child node that carries the text s for the locale en_US. *)
TextNode(s) == Obj(<<Member(KeyText, Obj(<<Member(en_US, Str(s))>>))>>)

Block(children) == Obj(<<Member(KeyChildren, Arr(children))>>)

TextListHi == Arr(<<Block(<<TextNode(<<"H", "i">>)>>)>>)
TextListE9 == Arr(<<Block(<<TextNode(<<"U00E9">>)>>)>>)

Info(locales) == Obj(<<Member(KeyLanguage, Arr(locales))>>)
InfoEn == Info(<<Str(en_US)>>)

Project(textList, gameInformation) ==
  Obj(<<Member(KeyTextList, textList), Member(KeyGameInformation, gameInformation)>>)

Scenario == Encode(Compact(Project(TextListHi, InfoEn)))

(* A file as the editor saves it: characters outside ASCII are written as *)
(* their UTF-8 bytes, not as \u escapes.                                  *)
Utf8(text) == Encode(Unescape(text))

InfoE9 == Obj(<<Member(KeyLanguage, Arr(<<Str(en_US)>>)),
                Member(<<"t">>, Str(<<"U00E9">>))>>)

(* The Documents the operations are run on: JSON texts with and without  *)
(* the two fields, compact and wide, with a character of two bytes in a  *)
(* span (followed by the rest of the text, or by whitespace), and two    *)
(* files cut short: one inside its textList array, one inside the key.   *)
Documents ==
  { Scenario,
    Encode(Compact(Project(TextListHi, Info(<<Str(en_US), Str(it_IT)>>)))),
    Encode(Wide(Project(TextListHi, InfoEn))),
    Utf8(Compact(Project(TextListE9, InfoEn))),
    Encode(Compact(Obj(<<Member(KeyGameInformation, InfoEn)>>))),
    Encode(Compact(Obj(<<Member(KeyTextList, TextListHi)>>))),
    Encode(Compact(Obj(<<Member(KeyGameInformation, InfoEn),
                         Member(KeyTextList, Str(<<>>))>>))),
    Encode(Compact(Obj(<<Member(KeyTextList, TextListHi),
                         Member(KeyGameInformation, Str(<<>>))>>))),
    Utf8(<<"{", Quote>> \o KeyGameInformation \o <<Quote, ":">> \o Compact(InfoE9)
           \o <<" ", ",", Quote>> \o KeyTextList \o <<Quote, ":">>
           \o Compact(Arr(<<Str(<<"U00E9">>)>>)) \o <<" ", "}">>),
    Slice(Scenario, 0, 30),
    Slice(Encode(Compact(Obj(<<Member(KeyGameInformation, InfoEn),
                               Member(KeyTextList, TextListHi)>>))), 0, 44) }

(* The Working Value file before the first operation: the empty temporary *)
(* file, or a file imported into it.                                      *)
WorkingValues ==
  { <<>>,
    Encode(Wide(TextListHi)),
    Encode(Dumps(Arr(<<>>))) }

Started(D) ==
  [op |-> "none", lang |-> <<>>, n |-> 0, first |-> D, doc |-> D, wv |-> <<>>,
   outcome |-> "ok", data |-> <<>>, wrote |-> FALSE, payload |-> <<>>]

(* One call of op: the files after it, and the record of the call. *)
Call(op, lang, o) ==
  /\ doc' = o.doc
  /\ wv' = o.wv
  /\ pc' = IF o.outcome = "ok" THEN "main" ELSE o.outcome
  /\ last' = [op |-> op, lang |-> lang, n |-> last.n + 1, first |-> last.first,
              doc |-> doc, wv |-> wv, outcome |-> o.outcome, data |-> o.data,
              wrote |-> o.wrote, payload |-> o.payload]
  /\ UNCHANGED <<pattern, start, cursor, stream, result, brackets, reset,
                 brackets_open, char, data, i, log, cfg>>

ExtractLocalization ==
  /\ pc = "main"
  /\ last.n < MaxOps
  /\ Call("extract_localization", <<>>, extract_localization(doc, wv))

AddLanguageSupport ==
  /\ pc = "main"
  /\ last.n < MaxOps
  /\ \E lang_dest \in Locales :
       Call("add_language_support", lang_dest, add_language_support(doc, wv, lang_dest))

AddTranslation ==
  /\ pc = "main"
  /\ last.n < MaxOps
  /\ Call("add_translation", <<>>, add_translation(doc, wv))

Init ==
  /\ doc \in Documents
  /\ wv \in WorkingValues
  /\ last = Started(doc)
  /\ pc = "main"
  /\ start = 0
  /\ cursor = 0
  /\ result = None
  /\ SearchIdle
  /\ BracketIdle
  /\ TranslateIdle

Next == ExtractLocalization \/ AddLanguageSupport \/ AddTranslation

Spec == Init /\ [][Next]_vars

----------------------------------------------------------------------------
(* translate_strings and translate_block on the Working Value file. *)

(* locale[:separator_index]: the text before the first '-', or else the *)
(* first '_'; the locale itself when it has neither.                    *)
iso_from_locale(locale) ==
  LET at(c) == {p \in 1..Len(locale) : locale[p] = c}
  IN  IF at("-") # {} THEN SubSeq(locale, 1, Min(at("-")) - 1)
      ELSE IF at("_") # {} THEN SubSeq(locale, 1, Min(at("_")) - 1)
      ELSE locale

auto == <<"a", "u", "t", "o">>

(* ts.google raised. *)
Fails == "Fails"

RECURSIVE translate_block(_, _, _, _, _, _)
RECURSIVE Children(_, _, _, _, _, _, _)

(* The body of the loop for one child at path: the child after it and the *)
(* calls of ts.google it made, each with its arguments and its reply.     *)
TranslateChild(child, path, lang_src, lang_dest, skip, google) ==
  IF ~Has(child, KeyText)
    THEN IF Has(child, KeyChildren)
           THEN translate_block(child, path, lang_src, lang_dest, skip, google)
           ELSE [block |-> child, calls |-> <<>>]
  ELSE LET dictionary == Get(child, KeyText)
       IN  IF Len(dictionary.v) = 0 THEN [block |-> child, calls |-> <<>>]
           ELSE IF skip /\ Has(dictionary, lang_dest) THEN [block |-> child, calls |-> <<>>]
           ELSE LET default_value == dictionary.v[1].val
                    value == IF Has(dictionary, lang_src)
                               THEN Get(dictionary, lang_src) ELSE default_value
                    src == IF lang_src = auto THEN auto ELSE iso_from_locale(lang_src)
                    call == [path |-> path, value |-> value.v, from_language |-> src,
                             to_language |-> iso_from_locale(lang_dest),
                             reply |-> google[path]]
                IN  IF google[path] = Fails
                      THEN [block |-> child, calls |-> <<call>>]
                      ELSE [block |-> Put(child, KeyText,
                                          Put(dictionary, lang_dest, Str(google[path]))),
                            calls |-> <<call>>]

(* The loop over the children as it would be without the try/except: the *)
(* first failure ends it.                                                *)
ChildrenAborting(children, n, path, lang_src, lang_dest, skip, google) ==
  LET failed(r) == \E k \in 1..Len(r.calls) : r.calls[k].reply = Fails
      RECURSIVE loop(_)
      loop(m) ==
        IF m > Len(children) THEN [children |-> children, calls |-> <<>>]
        ELSE LET r == TranslateChild(children[m], Append(path, m),
                                     lang_src, lang_dest, skip, google)
                 rest == IF failed(r) THEN [children |-> children, calls |-> <<>>]
                         ELSE loop(m + 1)
             IN  [children |-> [rest.children EXCEPT ![m] = r.block],
                  calls |-> r.calls \o rest.calls]
  IN  loop(n)

(* for child in block["children"], from the n-th child on. *)
Children(children, n, path, lang_src, lang_dest, skip, google) ==
  IF n > Len(children) THEN [children |-> children, calls |-> <<>>]
  ELSE LET r == TranslateChild(children[n], Append(path, n),
                               lang_src, lang_dest, skip, google)
           rest == Children(children, n + 1, path, lang_src, lang_dest, skip, google)
       IN  [children |-> [rest.children EXCEPT ![n] = r.block],
            calls |-> r.calls \o rest.calls]

(* The block after translate_block, which updates it in place, and the   *)
(* calls of ts.google in order.  path is the place of the block: <<>> for *)
(* a block of the array, the path of the child for a nested one.         *)
translate_block(block, path, lang_src, lang_dest, skip, google) ==
  LET r == Children(Get(block, KeyChildren).v, 1, path, lang_src, lang_dest, skip, google)
  IN  [block |-> Put(block, KeyChildren, Arr(r.children)), calls |-> r.calls]

(* The places in a block where a child carries the key "text". *)
RECURSIVE TextPaths(_, _)
TextPaths(block, path) ==
  LET children == Get(block, KeyChildren).v
  IN  UNION {IF Has(children[n], KeyText) THEN {Append(path, n)}
             ELSE IF Has(children[n], KeyChildren)
               THEN TextPaths(children[n], Append(path, n))
             ELSE {} : n \in 1..Len(children)}

(* What ts.google may answer. *)
Replies == {Fails, <<"C">>}

(* data = json.load(f) *)
TranslateLoad ==
  /\ pc = "translate_load"
  /\ data' = Loads(Decode(wv))
  /\ pc' = IF data'.k = "arr" THEN "translate_for" ELSE "error"
  /\ UNCHANGED <<doc, wv, pattern, start, cursor, stream, result, brackets, reset,
                 brackets_open, char, last, i, log, cfg>>

(* if not "children" in block: continue *)
TranslateContinue ==
  /\ pc = "translate_for"
  /\ i < Len(data.v)
  /\ ~Has(data.v[i + 1], KeyChildren)
  /\ i' = i + 1
  /\ UNCHANGED <<doc, wv, pc, pattern, start, cursor, stream, result, brackets, reset,
                 brackets_open, char, last, data, log, cfg>>

(* One block: translate_block, f.seek(0), f.write(json.dumps(data)). *)
TranslateBlock ==
  /\ pc = "translate_for"
  /\ i < Len(data.v)
  /\ Has(data.v[i + 1], KeyChildren)
  /\ \E google \in [TextPaths(data.v[i + 1], <<>>) -> Replies] :
       LET r == translate_block(data.v[i + 1], <<>>, cfg.lang_src, cfg.lang_dest,
                                cfg.skip, google)
       IN  /\ data' = Arr([data.v EXCEPT ![i + 1] = r.block])
           /\ log' = log \o [k \in 1..Len(r.calls) |-> [index |-> i, call |-> r.calls[k]]]
  /\ wv' = WriteAt(wv, 0, Dumps(data'))
  /\ i' = i + 1
  /\ UNCHANGED <<doc, pc, pattern, start, cursor, stream, result, brackets, reset,
                 brackets_open, char, last, cfg>>

(* The loop over the blocks ends and the file is closed. *)
TranslateReturn ==
  /\ pc = "translate_for"
  /\ i = Len(data.v)
  /\ pc' = "translate_done"
  /\ UNCHANGED <<doc, wv, pattern, start, cursor, stream, result, brackets, reset,
                 brackets_open, char, last, data, i, log, cfg>>

(* A child that carries texts for en_US and it_IT, and one with no text. *)
TextNodeBoth(s, t) ==
  Obj(<<Member(KeyText, Obj(<<Member(en_US, Str(s)), Member(it_IT, Str(t))>>))>>)
TextNodeEmpty == Obj(<<Member(KeyText, Obj(<<>>))>>)

(* Three blocks: texts and a nested sequence of children; a node that has *)
(* no children; an empty text and a text.                                 *)
Strings ==
  Arr(<<Block(<<TextNode(<<"H", "e", "l", "l", "o">>),
                TextNodeBoth(<<"Y", "o">>, <<"E", "h", "i">>),
                Block(<<TextNode(<<"Z">>)>>)>>),
        Obj(<<Member(<<"x">>, Str(<<>>))>>),
        Block(<<TextNodeEmpty, TextNode(<<"Q">>)>>)>>)

(* The Working Value file when translate_strings is called: what          *)
(* extract_localization wrote, a file imported with the whitespace of its *)
(* writer, or a file that holds no value.                                 *)
TranslateFiles ==
  { Encode(Dumps(Strings)),
    Encode(Dumps(TextListHi)),
    Encode(Wide(TextListHi)),
    Utf8(Compact(TextListE9)) \o <<"\n">>,
    <<>> }

TranslateInit ==
  /\ wv \in TranslateFiles
  /\ cfg \in [lang_src : {auto, en_US, it_IT}, lang_dest : Locales, skip : BOOLEAN]
  /\ last = [op |-> "translate_strings", wv |-> wv]
  /\ pc = "translate_load"
  /\ data = None
  /\ i = 0
  /\ log = <<>>
  /\ doc = <<>>
  /\ start = 0
  /\ cursor = 0
  /\ result = None
  /\ SearchIdle
  /\ BracketIdle

TranslateNext == TranslateLoad \/ TranslateContinue \/ TranslateBlock \/ TranslateReturn

TranslateSpec == TranslateInit /\ [][TranslateNext]_vars

----------------------------------------------------------------------------
(* Properties of stream_search. *)

Occurs(D, P, o) == o + Len(P) <= Len(D) /\ Slice(D, o, o + Len(P)) = P

Matches(D, P, from) == {o \in from..Len(D) : Occurs(D, P, o)}

(* C2: when the pattern occurs in the Document and the search starts at 0, *)
(* stream_search returns the minimum offset at which the pattern occurs,   *)
(* and no window it reads sends the cursor back to that window's start.    *)
C2_FirstMatch ==
  (start = 0 /\ Matches(doc, pattern, 0) # {}) =>
    /\ pc = "search_done" => result = Min(Matches(doc, pattern, 0))
    /\ pc = "search_scan" =>
         LET r == ScanWindow(stream, pattern, cursor)
         IN  r.kind = "seek" => r.pos > cursor - Len(stream)

(* The only match ends at the last byte of the Document and does not start *)
(* on a window boundary.                                                   *)
C2_Witness ==
  /\ pc = "search_done"
  /\ start = 0
  /\ Matches(doc, pattern, 0) = {result}
  /\ result + Len(pattern) = Len(doc)
  /\ Len(pattern) > 1
  /\ result % Len(pattern) # 0

(* C3: when the pattern does not occur at or after the start offset,       *)
(* stream_search terminates and returns -1.                                *)
C3_Terminates ==
  (Matches(doc, pattern, start) = {}) ~> (pc = "search_done" /\ result = NotFound)

----------------------------------------------------------------------------
(* Properties of find_couple_brackets_end. *)

(* The naive depth scan of D[s:e]. *)
Depth(D, s, e, br) ==
  Cardinality({k \in (s + 1)..e : D[k] = br[1]})
    - Cardinality({k \in (s + 1)..e : D[k] = br[2]})

Ends(D, s, br) == {e \in (s + 1)..Len(D) : Depth(D, s, e, br) = 0}

(* C5: when the opening delimiter under the cursor has a matching closing  *)
(* delimiter, the offset returned is the one right after it; the counter   *)
(* is the depth of the bytes consumed, 0 exactly there and positive at     *)
(* every earlier position of the scan.                                     *)
C5_MatchingEnd ==
  Ends(doc, start, brackets) # {} =>
    LET e == Min(Ends(doc, start, brackets))
    IN  /\ pc = "brackets_while" =>
             /\ cursor <= e
             /\ brackets_open = Depth(doc, start, cursor, brackets)
             /\ (cursor < e => brackets_open > 0)
             /\ (cursor = e => brackets_open = 0)
        /\ pc = "brackets_done" =>
             /\ result = e
             /\ cursor = IF reset THEN start ELSE e

(* A nested span with bytes after it has been scanned. *)
C5_Witness ==
  /\ pc = "brackets_done"
  /\ Ends(doc, start, brackets) # {}
  /\ result = Min(Ends(doc, start, brackets))
  /\ result < Len(doc)
  /\ \E k \in (start + 2)..result : doc[k] = brackets[1]

(* C6: when the depth never returns to 0 before the end of the file, the   *)
(* scan ends with a MalformedSpan error once a read reaches the end.       *)
C6_MalformedSpanRaised ==
  (Ends(doc, start, brackets) = {} /\ char = EOF) => pc = "brackets_error"

(* The functions agree with the loops they summarise. *)
SearchAgrees ==
  /\ pc = "search_done" => result = stream_search(doc, pattern, start)
  /\ stream_search(doc, pattern, start) # Hang =>
       (pc = "search_scan" =>
          LET r == ScanWindow(stream, pattern, cursor)
          IN  r.kind = "seek" => r.pos > cursor - Len(stream))

BracketAgrees ==
  /\ pc = "brackets_done" =>
       result = find_couple_brackets_end(doc, start, brackets[1], brackets[2])
  /\ char = EOF =>
       find_couple_brackets_end(doc, start, brackets[1], brackets[2]) = Hang

----------------------------------------------------------------------------
(* Properties of the operations on the Document. *)

(* The key and the delimiters of the span an operation works on. *)
SpanOf(op) ==
  IF op = "add_language_support"
    THEN [key |-> KeyGameInformation, open |-> "{", close |-> "}"]
    ELSE [key |-> KeyTextList, open |-> "[", close |-> "]"]

LastSpan == Locate(last.doc, SpanOf(last.op).key, SpanOf(last.op).open, SpanOf(last.op).close)

(* C1: after the splice of add_translation or add_language_support the    *)
(* Document is the bytes before the span, the payload, and the bytes after *)
(* the span, and nothing else.                                             *)
C1_SpliceExact ==
  (last.op \in {"add_translation", "add_language_support"} /\ last.wrote) =>
    doc = Slice(last.doc, 0, LastSpan.start) \o Encode(last.payload)
            \o SliceFrom(last.doc, LastSpan.end)

(* C4: the read of the span by extract_localization and by                *)
(* add_language_support takes exactly the bytes D[start:end].             *)
C4_ExactBytes ==
  (last.op \in {"extract_localization", "add_language_support"}
     /\ LastSpan.status = "ok") =>
    last.data = Slice(last.doc, LastSpan.start, LastSpan.end)

(* The key does not occur, or no opening delimiter occurs at or after it. *)
Absent(D, key, open_bracket) ==
  \/ Matches(D, key, 0) = {}
  \/ Matches(D, <<open_bracket>>, Min(Matches(D, key, 0))) = {}

(* C7: when the key or an opening delimiter after it is absent, each of   *)
(* the three operations raises and writes nothing: the Document and the   *)
(* Working Value file are as before the call.                             *)
C7_NotFoundRaises ==
  (last.op # "none" /\ Absent(last.doc, SpanOf(last.op).key, SpanOf(last.op).open)) =>
    /\ last.outcome = "error"
    /\ pc = "error"
    /\ doc = last.doc
    /\ wv = last.wv

(* The supported-locale list of a Document. *)
LanguageOf(D) ==
  LET loc == Locate(D, KeyGameInformation, "{", "}")
  IN  Get(Loads(Decode(Slice(D, loc.start, loc.end))), KeyLanguage).v

Times(x, list) == Cardinality({n \in 1..Len(list) : list[n] = x})

----------------------------------------------------------------------------
(* Properties of translate_strings. *)

(* The array in the Working Value file when translate_strings was called. *)
First == Loads(Decode(last.wv))

RECURSIVE NodeAt(_, _)
NodeAt(block, path) ==
  IF path = <<>> THEN block
  ELSE NodeAt(Get(block, KeyChildren).v[Head(path)], Tail(path))

(* The child at path carries a text that the traversal has to translate. *)
Due(block, path) ==
  LET dictionary == Get(NodeAt(block, path), KeyText)
  IN  Len(dictionary.v) > 0 /\ ~(cfg.skip /\ Has(dictionary, cfg.lang_dest))

(* C8: a failure of the translator on one child leaves that child as it   *)
(* was, and the traversal goes on: in every block passed, each child that *)
(* carries a text to translate, nested ones included, was handed to the   *)
(* translator and holds the reply when there was one; the traversal does  *)
(* not raise and ends after the last block.                               *)
C8_FailureSkipped ==
  /\ pc = "error" => First.k # "arr"
  /\ pc \in {"translate_for", "translate_done"} =>
       /\ \A k \in 1..Len(log) :
            log[k].call.reply = Fails =>
              NodeAt(data.v[log[k].index + 1], log[k].call.path)
                = NodeAt(First.v[log[k].index + 1], log[k].call.path)
       /\ \A b \in 0..(i - 1) :
            Has(First.v[b + 1], KeyChildren) =>
              \A path \in TextPaths(First.v[b + 1], <<>>) :
                Due(First.v[b + 1], path) =>
                  \E k \in 1..Len(log) :
                    /\ log[k].index = b
                    /\ log[k].call.path = path
                    /\ log[k].call.reply # Fails =>
                         Get(Get(NodeAt(data.v[b + 1], path), KeyText), cfg.lang_dest)
                           = Str(log[k].call.reply)
       /\ pc = "translate_done" => i = Len(First.v)

(* The traversal has ended after a failure that was followed by a reply   *)
(* for a later child of the same block, for a nested child and for a      *)
(* child of a later block.                                                *)
C8_Witness ==
  /\ pc = "translate_done"
  /\ \E j, k, l, m \in 1..Len(log) :
       /\ j < k /\ k < l /\ l < m
       /\ log[j].call.reply = Fails
       /\ log[k].index = log[j].index /\ log[k].call.reply # Fails
       /\ Len(log[l].call.path) > 1 /\ log[l].call.reply # Fails
       /\ log[m].index > log[j].index /\ log[m].call.reply # Fails

(* C10: after each checkpoint and at the return of translate_strings the  *)
(* Working Value file is one serialization of the array and nothing more: *)
(* it parses, to the array held in memory.                                *)
C10_OneSerialization ==
  pc \in {"translate_for", "translate_done"} => Loads(Decode(wv)) = data

====
